---------------------------- MODULE Spec2Model ----------------------------
(* State initialisation and propagation layer of the agent graph            *)
(* (tradingagents/graph/propagation.py): Propagator.create_initial_state,   *)
(* Propagator.get_graph_args, and the debate sub-states they seed.          *)
(*                                                                          *)
(* Python values are tagged tuples: <<"None">>, <<"int", n>>,               *)
(* <<"float", t>> (the float t/10), <<"str", chars>>, <<"date", y, m, d>>,  *)
(* <<"dict", pairs>> with pairs a set of <<key, value>>.  A Python string   *)
(* is a sequence of one-character strings; the fixed Chinese text of a      *)
(* template is one opaque element of that sequence.                         *)
EXTENDS Integers, Sequences, FiniteSets, TLC

VARIABLES
    ctor_arg,         \* the max_recur_limit argument of Propagator(...): <<>> when omitted, <<n>> when given
    max_recur_limit,  \* self.max_recur_limit
    pc,               \* "new" before create_initial_state is called, "created" once it has returned, "failed" if it raised
    call,             \* <<the arguments of the create_initial_state call>>, <<>> before it; where the caller keeps the config, its value as first passed comes second
    state,            \* <<the AgentState in use>>: as create_initial_state returned it, then as the stages updated it; <<>> while there is none
    exc,              \* the last operation and the exception it raised ("NoException" when it returned)
    graph_args,       \* <<the value the last get_graph_args call returned>>, <<>> before any call
    use_cb,           \* the use_progress_callback argument of that call
    invLog,           \* the successful appends to investment_debate_state, in call order
    riskLog,          \* the successful appends to risk_debate_state, in call order
    prevDebates,      \* each debate state as it was before the last append to it (<<>> before any)
    attempt,          \* <<the debate and the side of the last append call>>, failed ones included; <<>> before any
    writes,           \* per report field, the number of writes to it that succeeded
    heap,             \* the caller's mutable objects: heap[1] is the holding_info mapping the config refers to
    returned,         \* the states two create_initial_state calls on the same arguments returned, objects by reference
    touched,          \* the returned states a stage has since written to
    cpc,              \* container_init.py: the statement the script is at
    entry,            \* container_init.py: the function that was called
    waits,            \* container_init.py: per service, max_retries, the attempts and sleeps made, and how the wait ended
    failed,           \* container_init.py: the initialisation steps that hit an error
    ret               \* container_init.py: what init_mongodb and main returned and the exit status (<<>> while there is none)

\* the propagator and the run it seeds
runVars == <<ctor_arg, max_recur_limit, pc, call, state, exc, graph_args, use_cb,
             invLog, riskLog, prevDebates, attempt, writes>>

\* the objects create_initial_state shares with its caller
freshVars == <<heap, returned, touched>>

\* scripts/container_init.py
containerVars == <<cpc, entry, waits, failed, ret>>

vars == <<runVars, freshVars, containerVars>>

---------------------------------------------------------------------------
(* Python values                                                            *)

PyNone == <<"None">>

PyInt(n) == <<"int", n>>

PyFloat(t) == <<"float", t>>

PyStr(s) == <<"str", s>>

PyDate(y, m, d) == <<"date", y, m, d>>

PyDict(pairs) == <<"dict", pairs>>

Kind(v) == v[1]

\* dict.get(key): the value stored under key, None when the key is missing
DictGet(d, key) ==
    IF \E p \in d[2] : p[1] = key
    THEN (CHOOSE p \in d[2] : p[1] = key)[2]
    ELSE PyNone

\* Python truth value testing, as used by `if config and ...` and `if shares and cost_price`
Truthy(v) ==
    CASE Kind(v) = "None"  -> FALSE
      [] Kind(v) = "int"   -> v[2] # 0
      [] Kind(v) = "float" -> v[2] # 0
      [] Kind(v) = "str"   -> Len(v[2]) > 0
      [] Kind(v) = "dict"  -> v[2] # {}
      [] OTHER             -> TRUE

DigitChars == <<"0", "1", "2", "3", "4", "5", "6", "7", "8", "9">>

RECURSIVE NatStr(_)
NatStr(n) ==
    IF n < 10 THEN <<DigitChars[n + 1]>>
    ELSE NatStr(n \div 10) \o <<DigitChars[(n % 10) + 1]>>

IntStr(n) == IF n < 0 THEN <<"-">> \o NatStr(-n) ELSE NatStr(n)

\* repr of a float with one decimal digit: 85.5 -> "85.5", 100.0 -> "100.0"
FloatStr(t) ==
    LET a == IF t < 0 THEN -t ELSE t
    IN  (IF t < 0 THEN <<"-">> ELSE <<>>)
        \o NatStr(a \div 10) \o <<".">> \o <<DigitChars[(a % 10) + 1]>>

\* n written with at least w digits, zero padded (date.isoformat)
RECURSIVE ZeroPad(_, _)
ZeroPad(s, w) == IF Len(s) >= w THEN s ELSE ZeroPad(<<"0">> \o s, w)

\* str(v), which is also what an f-string's {v} inserts
Str(v) ==
    CASE Kind(v) = "None"  -> <<"N", "o", "n", "e">>
      [] Kind(v) = "int"   -> IntStr(v[2])
      [] Kind(v) = "float" -> FloatStr(v[2])
      [] Kind(v) = "str"   -> v[2]
      [] Kind(v) = "date"  -> ZeroPad(NatStr(v[2]), 4) \o <<"-">>
                              \o ZeroPad(NatStr(v[3]), 2) \o <<"-">>
                              \o ZeroPad(NatStr(v[4]), 2)

\* s occurs in t as a contiguous run
Contains(t, s) ==
    \E i \in 0..(Len(t) - Len(s)) : SubSeq(t, i + 1, i + Len(s)) = s

\* the places of t at which s starts
Occurrences(t, s) ==
    {i \in 0..(Len(t) - Len(s)) : SubSeq(t, i + 1, i + Len(s)) = s}

IsDigit(c) == \E k \in 1..10 : DigitChars[k] = c

\* s reads as a calendar date, dddd-dd-dd
DateLike(s) ==
    /\ Len(s) = 10
    /\ \A i \in 1..10 : IF i \in {5, 8} THEN s[i] = "-" ELSE IsDigit(s[i])

---------------------------------------------------------------------------
(* The fixed text of the request templates, one element each               *)

\* "请对股票 "
T_REQ_HEAD == "<REQ:analyse stock >"
\* " 进行全面分析，交易日期为 "
T_REQ_DATE == "< full analysis, trade date >"
\* "。"
T_REQ_END == "<.>"
\* "\n\n📌 用户持仓信息：用户当前持有该股票 "
T_HOLD_HEAD == "<HOLD:user holds >"
\* " 股，持仓成本价为 "
T_HOLD_COST == "< shares, cost price >"
\* " 元/股。请在分析中特别考虑用户的持仓状况，提供针对性的操作建议（如继续持有、加仓、减仓、止盈、止损等）。"
T_HOLD_END == "< per share; consider the position: hold, add, reduce, take profit, stop loss.>"

---------------------------------------------------------------------------
(* Propagator                                                               *)

DefaultRecurLimit == 100

\* __init__ replacing a bound that is not positive by the default
Propagator_init_positive(arg) ==
    IF arg = <<>> \/ arg[1] <= 0 THEN DefaultRecurLimit ELSE arg[1]

\* Propagator.__init__(max_recur_limit=100)
Propagator_init(arg) == IF arg = <<>> THEN DefaultRecurLimit ELSE arg[1]

\* the condition under which create_initial_state reads config["holding_info"]
HasHoldingInfo(config) ==
    Truthy(config) /\ Truthy(DictGet(config, "holding_info"))

\* holding_info as create_initial_state leaves it
holding_info_of(config) ==
    IF HasHoldingInfo(config) THEN DictGet(config, "holding_info") ELSE PyNone

\* the guard of the holding clause: `if shares and cost_price`
InjectsHolding(config) ==
    /\ HasHoldingInfo(config)
    /\ Truthy(DictGet(holding_info_of(config), "shares"))
    /\ Truthy(DictGet(holding_info_of(config), "cost_price"))

\* the request as it was before the explicit request text: the stock code alone
analysis_request_code_only(company_name, trade_date, config) == company_name

\* the holding clause with its two values exchanged
analysis_request_swapped(company_name, trade_date, config) ==
    <<T_REQ_HEAD>> \o company_name \o <<T_REQ_DATE>> \o Str(trade_date) \o <<T_REQ_END>>
    \o (IF InjectsHolding(config)
        THEN <<T_HOLD_HEAD>> \o Str(DictGet(holding_info_of(config), "cost_price"))
             \o <<T_HOLD_COST>> \o Str(DictGet(holding_info_of(config), "shares"))
             \o <<T_HOLD_END>>
        ELSE <<>>)

\* analysis_request: the content of the seed message
analysis_request(company_name, trade_date, config) ==
    <<T_REQ_HEAD>> \o company_name \o <<T_REQ_DATE>> \o Str(trade_date) \o <<T_REQ_END>>
    \o (IF InjectsHolding(config)
        THEN <<T_HOLD_HEAD>> \o Str(DictGet(holding_info_of(config), "shares"))
             \o <<T_HOLD_COST>> \o Str(DictGet(holding_info_of(config), "cost_price"))
             \o <<T_HOLD_END>>
        ELSE <<>>)

HumanMessage(content) == [type |-> "human", content |-> content]

\* a debate state that starts at turn one
InvestDebateState_count_one ==
    [history |-> <<>>, current_response |-> <<>>, count |-> 1]

\* InvestDebateState({"history": "", "current_response": "", "count": 0})
InvestDebateState_initial ==
    [history |-> <<>>, current_response |-> <<>>, count |-> 0]

\* a risk debate state seeded with a response nobody gave
RiskDebateState_stale_safe ==
    [history |-> <<>>,
     current_risky_response |-> <<>>,
     current_safe_response |-> <<"b">>,
     current_neutral_response |-> <<>>,
     count |-> 0]

\* a risk debate state whose history starts with a separator of its own
RiskDebateState_seeded_history ==
    [history |-> <<"\n">>,
     current_risky_response |-> <<>>,
     current_safe_response |-> <<>>,
     current_neutral_response |-> <<>>,
     count |-> 0]

\* RiskDebateState({...}) as create_initial_state builds it
RiskDebateState_initial ==
    [history |-> <<>>,
     current_risky_response |-> <<>>,
     current_safe_response |-> <<>>,
     current_neutral_response |-> <<>>,
     count |-> 0]

\* an initial state that carries a market report over from an earlier run
AgentState_initial_stale_report(company_name, trade_date, config) ==
    [messages |-> <<HumanMessage(analysis_request(company_name, trade_date, config))>>,
     company_of_interest |-> company_name,
     trade_date |-> Str(trade_date),
     holding_info |-> holding_info_of(config),
     investment_debate_state |-> InvestDebateState_initial,
     risk_debate_state |-> RiskDebateState_initial,
     market_report |-> <<"m">>,
     fundamentals_report |-> <<>>,
     sentiment_report |-> <<>>,
     news_report |-> <<>>]

\* the dict create_initial_state returns
AgentState_initial(company_name, trade_date, config) ==
    [messages |-> <<HumanMessage(analysis_request(company_name, trade_date, config))>>,
     company_of_interest |-> company_name,
     trade_date |-> Str(trade_date),
     holding_info |-> holding_info_of(config),
     investment_debate_state |-> InvestDebateState_initial,
     risk_debate_state |-> RiskDebateState_initial,
     market_report |-> <<>>,
     fundamentals_report |-> <<>>,
     sentiment_report |-> <<>>,
     news_report |-> <<>>]

\* create_initial_state with the validation the code does not have
create_initial_state_validating(company_name, trade_date, config) ==
    IF company_name = <<>> \/ ~DateLike(Str(trade_date))
    THEN [raised |-> "InvalidInput", value |-> <<>>]
    ELSE [raised |-> "NoException",
          value |-> AgentState_initial(company_name, trade_date, config)]

\* Propagator.create_initial_state: what the call raises and what it returns
create_initial_state(company_name, trade_date, config) ==
    [raised |-> "NoException",
     value |-> AgentState_initial(company_name, trade_date, config)]

\* get_graph_args with the two stream modes exchanged
get_graph_args_swapped(limit, use_progress_callback) ==
    [stream_mode |-> IF use_progress_callback THEN "values" ELSE "updates",
     config |-> [recursion_limit |-> limit]]

\* Propagator.get_graph_args
get_graph_args(limit, use_progress_callback) ==
    [stream_mode |-> IF use_progress_callback THEN "updates" ELSE "values",
     config |-> [recursion_limit |-> limit]]

---------------------------------------------------------------------------
(* Inputs                                                                   *)

CtorArgs == {<<>>, <<1>>, <<25>>, <<0>>, <<-1>>}

CompanyNames == {<<>>, <<"6">>, <<"6", "0">>}

IsoDate == <<"2", "0", "2", "4", "-", "0", "6", "-", "0", "1">>

TradeDates == {PyStr(IsoDate), PyDate(2024, 6, 1), PyStr(<<"x">>), PyStr(<<>>), PyNone}

FieldValues == {PyNone, PyInt(0), PyInt(100), PyFloat(0), PyFloat(855)}

\* the holding_info mappings: each key missing or bound to a value
HoldingDicts ==
    {PyDict({<<"shares", s>>} \cup {<<"cost_price", c>>}) : s \in FieldValues, c \in FieldValues}
    \cup {PyDict({<<"shares", s>>}) : s \in FieldValues}
    \cup {PyDict({<<"cost_price", c>>}) : c \in FieldValues}
    \cup {PyDict({})}

Configs ==
    {PyNone, PyDict({}), PyDict({<<"holding_info", PyNone>>})}
    \cup {PyDict({<<"holding_info", h>>}) : h \in HoldingDicts}

---------------------------------------------------------------------------
(* The propagator's operations                                              *)

\* no create_initial_state call is being compared with another
NoSharedObjects == heap = <<>> /\ returned = <<>> /\ touched = {}

\* the container script is not running
NoReturn == [init_mongodb |-> <<>>, main |-> <<>>, exit |-> <<>>]

NoContainer ==
    /\ cpc = "idle"
    /\ entry = <<>>
    /\ waits = <<>>
    /\ failed = {}
    /\ ret = NoReturn

ReportFields == {"market_report", "fundamentals_report", "sentiment_report", "news_report"}

NoWrites == [f \in ReportFields |-> 0]

NoOperation == [op |-> "Propagator", raised |-> "NoException"]

NoAppend == [invest |-> <<>>, risk |-> <<>>]

Init ==
    /\ ctor_arg \in CtorArgs
    /\ max_recur_limit = Propagator_init(ctor_arg)
    /\ pc = "new"
    /\ call = <<>>
    /\ state = <<>>
    /\ exc = NoOperation
    /\ graph_args = <<>>
    /\ use_cb = FALSE
    /\ invLog = <<>>
    /\ riskLog = <<>>
    /\ prevDebates = NoAppend
    /\ attempt = <<>>
    /\ writes = NoWrites
    /\ NoSharedObjects
    /\ NoContainer

\* one run of the graph seeds its state once (the caller's propagate step)
CreateInitialState ==
    \E company_name \in CompanyNames, trade_date \in TradeDates, config \in Configs :
        LET r == create_initial_state(company_name, trade_date, config)
        IN  /\ pc = "new"
            /\ call' = <<[company_name |-> company_name, trade_date |-> trade_date,
                          config |-> config]>>
            /\ exc' = [op |-> "create_initial_state", raised |-> r.raised]
            /\ IF r.raised = "NoException"
               THEN pc' = "created" /\ state' = <<r.value>>
               ELSE pc' = "failed" /\ state' = <<>>
            /\ UNCHANGED <<ctor_arg, max_recur_limit, graph_args, use_cb,
                           invLog, riskLog, prevDebates, attempt, writes>>
            /\ UNCHANGED <<freshVars, containerVars>>

GetGraphArgs ==
    \E use_progress_callback \in BOOLEAN :
        /\ graph_args' = <<get_graph_args(max_recur_limit, use_progress_callback)>>
        /\ use_cb' = use_progress_callback
        /\ exc' = [op |-> "get_graph_args", raised |-> "NoException"]
        /\ UNCHANGED <<ctor_arg, max_recur_limit, pc, call, state,
                       invLog, riskLog, prevDebates, attempt, writes>>
        /\ UNCHANGED <<freshVars, containerVars>>

Next == CreateInitialState \/ GetGraphArgs

Spec == Init /\ [][Next]_vars

---------------------------------------------------------------------------
(* The debate append protocol.  The stages that take a debate turn live     *)
(* outside propagation.py; append follows its documented contract:          *)
(* history := history + separator + text, the speaker's current slot :=     *)
(* text, count := count + 1, InvalidSide for an unrecognised role.          *)

MaxTurns == 3

SEP == "\n"

InvestSides == {"bull", "bear"}

RiskSides == {"risky", "safe", "neutral"}

Texts == {<<>>, <<"a">>, <<"b">>, <<"c">>}

\* the sides the stages pass to append: every role of either debate
CalledSides == InvestSides \cup RiskSides

\* append taking a turn from whoever calls it
append_invest_any_side(d, side, text) ==
    [raised |-> "NoException",
     value |-> [history |-> d.history \o <<SEP>> \o text,
                current_response |-> text,
                count |-> d.count + 1]]

append_invest(d, side, text) ==
    IF side \notin InvestSides
    THEN [raised |-> "InvalidSide", value |-> d]
    ELSE [raised |-> "NoException",
          value |-> [history |-> d.history \o <<SEP>> \o text,
                     current_response |-> text,
                     count |-> d.count + 1]]

\* the current-response slot of a risk role
RiskSlot(side) ==
    CASE side = "risky"   -> "current_risky_response"
      [] side = "safe"    -> "current_safe_response"
      [] side = "neutral" -> "current_neutral_response"

append_risk(d, side, text) ==
    IF side \notin RiskSides
    THEN [raised |-> "InvalidSide", value |-> d]
    ELSE [raised |-> "NoException",
          value |-> [[d EXCEPT ![RiskSlot(side)] = text]
                        EXCEPT !.history = d.history \o <<SEP>> \o text,
                               !.count = d.count + 1]]

\* a run: the state create_initial_state returned, handed to the stages
RunInputs ==
    {[company_name |-> <<"6", "0">>, trade_date |-> PyStr(IsoDate), config |-> PyNone],
     [company_name |-> <<"6">>, trade_date |-> PyDate(2024, 6, 1),
      config |-> PyDict({<<"holding_info",
                           PyDict({<<"shares", PyInt(100)>>,
                                   <<"cost_price", PyFloat(855)>>})>>})]}

InitRun ==
    /\ ctor_arg = <<>>
    /\ max_recur_limit = Propagator_init(ctor_arg)
    /\ call \in {<<c>> : c \in RunInputs}
    /\ pc = "created"
    /\ state = <<create_initial_state(call[1].company_name, call[1].trade_date,
                                      call[1].config).value>>
    /\ exc = [op |-> "create_initial_state", raised |-> "NoException"]
    /\ graph_args = <<>>
    /\ use_cb = FALSE
    /\ invLog = <<>>
    /\ riskLog = <<>>
    /\ prevDebates = NoAppend
    /\ attempt = <<>>
    /\ writes = NoWrites
    /\ NoSharedObjects
    /\ NoContainer

TurnsLeft == Len(invLog) + Len(riskLog) < MaxTurns

\* the reports the analyst stages hand in
ReportTexts == {<<"m">>, <<"n">>}

\* mergeReportField(state, fieldName, value): write-once, a second write is an error
mergeReportField(s, fieldName, value) ==
    IF s[fieldName] # <<>>
    THEN [raised |-> "InvalidInput", value |-> s]
    ELSE [raised |-> "NoException", value |-> [s EXCEPT ![fieldName] = value]]

\* an analyst stage hands in its report
MergeReport ==
    \E fieldName \in ReportFields, value \in ReportTexts :
        LET r == mergeReportField(state[1], fieldName, value)
        IN  /\ pc = "created"
            /\ exc' = [op |-> "mergeReportField", raised |-> r.raised]
            /\ state' = <<r.value>>
            /\ writes' = IF r.raised = "NoException"
                         THEN [writes EXCEPT ![fieldName] = @ + 1]
                         ELSE writes
            /\ UNCHANGED <<ctor_arg, max_recur_limit, pc, call, graph_args, use_cb,
                           invLog, riskLog, prevDebates, attempt>>
            /\ UNCHANGED <<freshVars, containerVars>>

\* a stage of the investment debate takes its turn
AppendInvest ==
    \E side \in CalledSides, text \in Texts :
        LET d == state[1].investment_debate_state
            r == append_invest(d, side, text)
        IN  /\ pc = "created"
            /\ TurnsLeft
            /\ exc' = [op |-> "append", raised |-> r.raised]
            /\ attempt' = <<[debate |-> "invest", side |-> side]>>
            /\ state' = <<[state[1] EXCEPT !.investment_debate_state = r.value]>>
            /\ IF r.raised = "NoException"
               THEN /\ invLog' = Append(invLog, [side |-> side, text |-> text])
                    /\ prevDebates' = [prevDebates EXCEPT !.invest = <<d>>]
               ELSE UNCHANGED <<invLog, prevDebates>>
            /\ UNCHANGED <<ctor_arg, max_recur_limit, pc, call, graph_args, use_cb,
                           riskLog, writes>>
            /\ UNCHANGED <<freshVars, containerVars>>

\* a stage of the risk debate takes its turn
AppendRisk ==
    \E side \in CalledSides, text \in Texts :
        LET d == state[1].risk_debate_state
            r == append_risk(d, side, text)
        IN  /\ pc = "created"
            /\ TurnsLeft
            /\ exc' = [op |-> "append", raised |-> r.raised]
            /\ attempt' = <<[debate |-> "risk", side |-> side]>>
            /\ state' = <<[state[1] EXCEPT !.risk_debate_state = r.value]>>
            /\ IF r.raised = "NoException"
               THEN /\ riskLog' = Append(riskLog, [side |-> side, text |-> text])
                    /\ prevDebates' = [prevDebates EXCEPT !.risk = <<d>>]
               ELSE UNCHANGED <<riskLog, prevDebates>>
            /\ UNCHANGED <<ctor_arg, max_recur_limit, pc, call, graph_args, use_cb,
                           invLog, writes>>
            /\ UNCHANGED <<freshVars, containerVars>>

NextRun == AppendInvest \/ AppendRisk

SpecRun == InitRun /\ [][NextRun]_vars

\* the analyst stages hand in their reports, around the opening turns of the debates
MaxOpeningTurns == 1

OpeningTurn ==
    /\ Len(invLog) + Len(riskLog) < MaxOpeningTurns
    /\ AppendInvest \/ AppendRisk

NextReports == MergeReport \/ OpeningTurn

SpecReports == InitRun /\ [][NextReports]_vars

---------------------------------------------------------------------------
(* create_initial_state and the objects of its caller.  A Python mapping is *)
(* an object: config["holding_info"] is <<"ref", 1>>, the mapping heap[1],  *)
(* and line 35 binds holding_info to that same object.                      *)

MaxCalls == 2

HoldingRef == <<"ref", 1>>

\* the value of a config whose holding_info is a reference into h
DerefConfig(h, config) ==
    IF Kind(config) = "dict"
    THEN PyDict({<<p[1], IF Kind(p[2]) = "ref" THEN h[p[2][2]] ELSE p[2]>> : p \in config[2]})
    ELSE config

\* d[key] = v
DictSet(d, key, v) == PyDict({p \in d[2] : p[1] # key} \cup {<<key, v>>})

\* the state create_initial_state returns, its holding_info by reference
create_initial_state_shared(h, company_name, trade_date, config) ==
    LET cv == DerefConfig(h, config)
        s == create_initial_state(company_name, trade_date, cv).value
    IN  [s EXCEPT !.holding_info =
             IF HasHoldingInfo(cv) THEN DictGet(config, "holding_info") ELSE PyNone]

\* a returned state as its holder reads it
ViewOf(h, s) ==
    [s EXCEPT !.holding_info = IF Kind(@) = "ref" THEN h[@[2]] ELSE @]

\* the mappings a caller passes as holding_info
CallerHoldings ==
    {PyDict({<<"shares", PyInt(100)>>, <<"cost_price", PyFloat(855)>>}),
     PyDict({<<"shares", PyInt(100)>>}),
     PyDict({<<"shares", PyInt(0)>>, <<"cost_price", PyFloat(855)>>}),
     PyDict({})}

\* what a stage stores into a holding_info field
StageValues == {PyInt(0), PyInt(50)}

InitFresh ==
    /\ ctor_arg = <<>>
    /\ max_recur_limit = Propagator_init(ctor_arg)
    /\ pc = "new"
    /\ \/ /\ heap \in {<<h>> : h \in CallerHoldings}
          /\ call = <<[company_name |-> <<"6", "0">>, trade_date |-> PyStr(IsoDate),
                       config |-> PyDict({<<"holding_info", HoldingRef>>})],
                      PyDict({<<"holding_info", heap[1]>>})>>
       \/ /\ heap = <<>>
          /\ \E c \in {PyNone, PyDict({})} :
                call = <<[company_name |-> <<"6", "0">>, trade_date |-> PyStr(IsoDate),
                         config |-> c], c>>
    /\ state = <<>>
    /\ exc = NoOperation
    /\ graph_args = <<>>
    /\ use_cb = FALSE
    /\ invLog = <<>>
    /\ riskLog = <<>>
    /\ prevDebates = NoAppend
    /\ attempt = <<>>
    /\ writes = NoWrites
    /\ returned = <<>>
    /\ touched = {}
    /\ NoContainer

\* the caller calls create_initial_state on the arguments it holds
CallCreate ==
    /\ Len(returned) < MaxCalls
    /\ LET s == create_initial_state_shared(heap, call[1].company_name,
                                            call[1].trade_date, call[1].config)
       IN  returned' = Append(returned, [state |-> s, as_returned |-> ViewOf(heap, s)])
    /\ exc' = [op |-> "create_initial_state", raised |-> "NoException"]
    /\ UNCHANGED <<ctor_arg, max_recur_limit, pc, call, state, graph_args, use_cb,
                   invLog, riskLog, prevDebates, attempt, writes, heap, touched>>
    /\ UNCHANGED containerVars

\* a stage stores into the holding_info of the state it was handed:
\* state["holding_info"][key] = v
StageWritesHolding ==
    \E i \in 1..Len(returned), key \in {"shares", "cost_price"}, v \in StageValues :
        /\ Kind(returned[i].state.holding_info) = "ref"
        /\ heap' = [heap EXCEPT ![returned[i].state.holding_info[2]] = DictSet(@, key, v)]
        /\ touched' = touched \cup {i}
        /\ exc' = [op |-> "stage", raised |-> "NoException"]
        /\ UNCHANGED <<ctor_arg, max_recur_limit, pc, call, state, graph_args, use_cb,
                       invLog, riskLog, prevDebates, attempt, writes, returned>>
        /\ UNCHANGED containerVars

\* a stage stores into the investment debate of the state it was handed:
\* state["investment_debate_state"]["count"] += 1
StageWritesDebate ==
    \E i \in 1..Len(returned) :
        /\ returned[i].state.investment_debate_state.count < 1
        /\ returned' = [returned EXCEPT ![i].state.investment_debate_state.count = @ + 1]
        /\ touched' = touched \cup {i}
        /\ exc' = [op |-> "stage", raised |-> "NoException"]
        /\ UNCHANGED <<ctor_arg, max_recur_limit, pc, call, state, graph_args, use_cb,
                       invLog, riskLog, prevDebates, attempt, writes, heap>>
        /\ UNCHANGED containerVars

NextFresh == CallCreate \/ StageWritesHolding \/ StageWritesDebate

SpecFresh == InitFresh /\ [][NextFresh]_vars

---------------------------------------------------------------------------
(* scripts/container_init.py: the two waits, init_mongodb and main.         *)

DefaultMaxRetries == 30

MaxRetries == 3

\* the initialisation functions init_mongodb awaits, each of which catches
\* and logs whatever its body raises
Steps ==
    {"create_database_indexes", "create_system_config", "init_llm_providers",
     "init_model_catalog", "create_default_admin_user"}

\* a wait at the head of its loop, nothing tried yet
NewWait(service, max_retries) ==
    [service |-> service, max_retries |-> max_retries, i |-> 0,
     attempts |-> 0, failures |-> 0, sleeps |-> 0, outcome |-> "running"]

\* one pass of `for i in range(max_retries)`: the range is exhausted and the
\* function falls off its end (returns None), or the attempt connects and the
\* client is returned, or it fails and the loop sleeps and goes on (not the
\* last pass) or re-raises (the last pass)
wait_iteration(w, connected) ==
    IF w.i >= w.max_retries
    THEN [w EXCEPT !.outcome = "none"]
    ELSE IF connected
    THEN [w EXCEPT !.attempts = @ + 1, !.outcome = "client"]
    ELSE IF w.i < w.max_retries - 1
    THEN [w EXCEPT !.attempts = @ + 1, !.failures = @ + 1, !.sleeps = @ + 1, !.i = @ + 1]
    ELSE [w EXCEPT !.attempts = @ + 1, !.failures = @ + 1, !.outcome = "raised"]

\* the script is run (main, the waits with their defaults), or a wait is
\* called with a max_retries of the caller's
InitContainer ==
    /\ ctor_arg = <<>>
    /\ max_recur_limit = Propagator_init(ctor_arg)
    /\ pc = "new"
    /\ call = <<>>
    /\ state = <<>>
    /\ exc = NoOperation
    /\ graph_args = <<>>
    /\ use_cb = FALSE
    /\ invLog = <<>>
    /\ riskLog = <<>>
    /\ prevDebates = NoAppend
    /\ attempt = <<>>
    /\ writes = NoWrites
    /\ NoSharedObjects
    /\ \/ /\ entry = <<[fn |-> "main", max_retries |-> DefaultMaxRetries]>>
          /\ cpc = "wait_for_mongodb"
          /\ waits = <<NewWait("mongodb", DefaultMaxRetries)>>
       \/ \E n \in 0..MaxRetries :
             \/ /\ entry = <<[fn |-> "wait_for_mongodb", max_retries |-> n]>>
                /\ cpc = "wait_for_mongodb"
                /\ waits = <<NewWait("mongodb", n)>>
             \/ /\ entry = <<[fn |-> "wait_for_redis", max_retries |-> n]>>
                /\ cpc = "wait_for_redis"
                /\ waits = <<NewWait("redis", n)>>
    /\ failed = {}
    /\ ret = NoReturn

\* wait_for_mongodb, one pass of its loop; in main a raise goes to main's
\* except and any return (its value is dropped) to wait_for_redis()
WaitForMongodb ==
    /\ cpc = "wait_for_mongodb"
    /\ \E connected \in BOOLEAN :
         LET w == wait_iteration(waits[Len(waits)], connected)
         IN  IF w.outcome = "running"
             THEN waits' = <<w>> /\ cpc' = cpc
             ELSE IF entry[1].fn # "main"
             THEN waits' = <<w>> /\ cpc' = "done"
             ELSE IF w.outcome = "raised"
             THEN waits' = <<w>> /\ cpc' = "main_except"
             ELSE /\ waits' = <<w, NewWait("redis", DefaultMaxRetries)>>
                  /\ cpc' = "wait_for_redis"
    /\ UNCHANGED <<entry, failed, ret>>
    /\ UNCHANGED <<runVars, freshVars>>

\* wait_for_redis, one pass of its loop; in main a raise goes to main's
\* except and any return to init_mongodb()
WaitForRedis ==
    /\ cpc = "wait_for_redis"
    /\ \E connected \in BOOLEAN :
         LET w == wait_iteration(waits[Len(waits)], connected)
         IN  /\ waits' = [waits EXCEPT ![Len(waits)] = w]
             /\ cpc' = IF w.outcome = "running" THEN cpc
                       ELSE IF entry[1].fn # "main" THEN "done"
                       ELSE IF w.outcome = "raised" THEN "main_except"
                       ELSE "init_mongodb"
    /\ UNCHANGED <<entry, failed, ret>>
    /\ UNCHANGED <<runVars, freshVars>>

\* init_mongodb: connecting or creating the collections raises and the
\* function returns False, or it awaits the five steps, any of which may hit
\* an error that the step itself catches, and returns True
InitMongodb ==
    /\ cpc = "init_mongodb"
    /\ \/ /\ failed' = {"create_collection"}
          /\ ret' = [ret EXCEPT !.init_mongodb = <<FALSE>>]
       \/ \E F \in SUBSET Steps :
             /\ failed' = F
             /\ ret' = [ret EXCEPT !.init_mongodb = <<TRUE>>]
    /\ cpc' = "main_return"
    /\ UNCHANGED <<entry, waits>>
    /\ UNCHANGED <<runVars, freshVars>>

\* main returns (False from its except or after init_mongodb returned False,
\* True otherwise) and the script exits with 0 or 1
MainReturns ==
    /\ cpc \in {"main_return", "main_except"}
    /\ LET success == cpc = "main_return" /\ ret.init_mongodb = <<TRUE>>
       IN  ret' = [ret EXCEPT !.main = <<success>>,
                              !.exit = <<IF success THEN 0 ELSE 1>>]
    /\ cpc' = "done"
    /\ UNCHANGED <<entry, waits, failed>>
    /\ UNCHANGED <<runVars, freshVars>>

NextContainer == WaitForMongodb \/ WaitForRedis \/ InitMongodb \/ MainReturns

\* asyncio.run drives main to its end: every connection attempt times out or
\* answers, every sleep ends
SpecContainer == InitContainer /\ [][NextContainer]_vars /\ WF_vars(NextContainer)

---------------------------------------------------------------------------
(* Properties of create_initial_state and get_graph_args, under Spec        *)

Created == pc = "created"

TheCall == call[1]

TheState == state[1]

SeedMessage == TheState.messages[1].content

\* the holding_info mapping the caller passed, the empty mapping when there is none
ConfigHolding(config) ==
    IF Kind(config) = "dict" /\ Kind(DictGet(config, "holding_info")) = "dict"
    THEN DictGet(config, "holding_info")
    ELSE PyDict({})

\* the caller supplied a value for the field
Supplied(config, key) == DictGet(ConfigHolding(config), key) # PyNone

\* the caller supplied a number other than zero for the field
SuppliedNonZero(config, key) ==
    LET v == DictGet(ConfigHolding(config), key)
    IN  Kind(v) \in {"int", "float"} /\ v[2] # 0

ExactlyOneSupplied(config) ==
    Supplied(config, "shares") # Supplied(config, "cost_price")

\* C1: whenever the config supplies exactly one of shares / cost_price, the
\* holding_info of the returned state is None, never a partly filled mapping.
C1_PartialHoldingIsAbsent ==
    (Created /\ ExactlyOneSupplied(TheCall.config)) => TheState.holding_info = PyNone

\* C2: whenever the config supplies both shares and cost_price with non-zero
\* values, the returned state's holding_info is present (the mapping passed
\* in) and the seed message contains the holding clause naming that number
\* of shares and that cost price.
C2_FullHoldingIsInjected ==
    (Created /\ SuppliedNonZero(TheCall.config, "shares")
             /\ SuppliedNonZero(TheCall.config, "cost_price"))
    => /\ TheState.holding_info # PyNone
       /\ TheState.holding_info = ConfigHolding(TheCall.config)
       /\ Contains(SeedMessage,
                   <<T_HOLD_HEAD>>
                   \o Str(DictGet(ConfigHolding(TheCall.config), "shares"))
                   \o <<T_HOLD_COST>>
                   \o Str(DictGet(ConfigHolding(TheCall.config), "cost_price"))
                   \o <<T_HOLD_END>>)

\* the scenario of 100 shares at 85.5: the message mentions "100" and "85.5"
C2_Witness ==
    /\ Created
    /\ ConfigHolding(TheCall.config)
         = PyDict({<<"shares", PyInt(100)>>, <<"cost_price", PyFloat(855)>>})
    /\ TheState.holding_info # PyNone
    /\ Contains(SeedMessage, <<T_HOLD_HEAD, "1", "0", "0", T_HOLD_COST>>)
    /\ Contains(SeedMessage, <<T_HOLD_COST, "8", "5", ".", "5", T_HOLD_END>>)

ValidInput(c) == c.company_name # <<>> /\ DateLike(Str(c.trade_date))

\* C3: for every valid (company_name, trade_date) the seed message contains
\* the company name and the date's string form verbatim, and the state's
\* company_of_interest and trade_date are the inputs (the date as a string).
C3_SeedNamesTargetAndDate ==
    (Created /\ ValidInput(TheCall))
    => /\ Contains(SeedMessage, TheCall.company_name)
       /\ Contains(SeedMessage, Str(TheCall.trade_date))
       /\ TheState.company_of_interest = TheCall.company_name
       /\ TheState.trade_date = Str(TheCall.trade_date)

\* a date object was coerced: the state and the message carry "2024-06-01"
C3_Witness ==
    /\ Created
    /\ TheCall.company_name = <<"6", "0">>
    /\ TheCall.trade_date = PyDate(2024, 6, 1)
    /\ TheState.trade_date = IsoDate
    /\ Contains(SeedMessage, <<"6", "0">>)
    /\ Contains(SeedMessage, IsoDate)

\* C4: every state create_initial_state returns has both debate states at
\* their empty values (empty history, empty current responses, count 0) and
\* the four reports empty, with or without holding info.
C4_DebatesAndReportsStartEmpty ==
    Created
    => /\ TheState.investment_debate_state
            = [history |-> <<>>, current_response |-> <<>>, count |-> 0]
       /\ TheState.risk_debate_state
            = [history |-> <<>>, current_risky_response |-> <<>>,
               current_safe_response |-> <<>>, current_neutral_response |-> <<>>,
               count |-> 0]
       /\ TheState.market_report = <<>>
       /\ TheState.fundamentals_report = <<>>
       /\ TheState.sentiment_report = <<>>
       /\ TheState.news_report = <<>>

\* a state created with holding info injected
C4_Witness ==
    /\ Created
    /\ TheState.holding_info # PyNone
    /\ TheState.investment_debate_state.count = 0
    /\ TheState.risk_debate_state.count = 0

\* C5: get_graph_args(True) returns stream_mode "updates", get_graph_args(False)
\* returns "values", and every call returns the recursion_limit the instance
\* holds, which is the bound given at construction.
C5_GraphArgs ==
    graph_args # <<>>
    => /\ use_cb => graph_args[1].stream_mode = "updates"
       /\ ~use_cb => graph_args[1].stream_mode = "values"
       /\ graph_args[1].config.recursion_limit = max_recur_limit
       /\ ctor_arg # <<>> => graph_args[1].config.recursion_limit = ctor_arg[1]

\* the incremental mode was asked of a propagator built with bound 25
C5_Witness ==
    /\ graph_args # <<>>
    /\ use_cb
    /\ ctor_arg = <<25>>
    /\ graph_args[1] = [stream_mode |-> "updates", config |-> [recursion_limit |-> 25]]

\* C11: a propagator exists only with a positive bound: construction with a
\* zero or negative max_recur_limit is rejected, so get_graph_args never
\* returns a recursion_limit that is not positive.
C11_BoundIsPositive ==
    graph_args # <<>> => graph_args[1].config.recursion_limit > 0

\* C11 as amended: the constructor checks nothing: the bound is 100 when
\* not given and otherwise the value given, zero and negative values
\* included, and get_graph_args returns that value as recursion_limit.
C11_BoundIsAsGiven ==
    /\ ctor_arg = <<>> => max_recur_limit = 100
    /\ ctor_arg # <<>> => max_recur_limit = ctor_arg[1]
    /\ graph_args # <<>>
       => graph_args[1].config.recursion_limit
            = (IF ctor_arg = <<>> THEN 100 ELSE ctor_arg[1])

\* a propagator built with bound 0 handed out recursion_limit 0
C11_Witness ==
    /\ ctor_arg = <<0>>
    /\ graph_args # <<>>
    /\ graph_args[1].config.recursion_limit = 0

\* C17: in every state create_initial_state returns, holding_info is non-None
\* if and only if the seed message contains the holding clause.
C17_HoldingInjectedConsistently ==
    Created => (TheState.holding_info # PyNone <=> Contains(SeedMessage, <<T_HOLD_HEAD>>))

InvalidInput(c) == c.company_name = <<>> \/ ~DateLike(Str(c.trade_date))

---------------------------------------------------------------------------
(* Properties of the debate states over a run, under SpecRun                *)

Invest == TheState.investment_debate_state

Risk == TheState.risk_debate_state

\* the text of the last entry of log made for side, "" when there is none
RECURSIVE LastText(_, _)
LastText(log, side) ==
    IF log = <<>> THEN <<>>
    ELSE IF log[Len(log)].side = side THEN log[Len(log)].text
    ELSE LastText(SubSeq(log, 1, Len(log) - 1), side)

\* the texts of log in call order, each preceded by the separator
RECURSIVE EachPrefixed(_)
EachPrefixed(log) ==
    IF log = <<>> THEN <<>>
    ELSE EachPrefixed(SubSeq(log, 1, Len(log) - 1)) \o <<SEP>> \o log[Len(log)].text

\* the texts of log in call order, the separator between neighbours only
RECURSIVE Joined(_)
Joined(log) ==
    IF log = <<>> THEN <<>>
    ELSE IF Len(log) = 1 THEN log[1].text
    ELSE Joined(SubSeq(log, 1, Len(log) - 1)) \o <<SEP>> \o log[Len(log)].text

\* C6: after N successful appends to a fresh debate state (either variant,
\* any mix of sides) count is exactly N; each append raises count by exactly
\* one, and count is never negative.
C6_CountIsNumberOfAppends ==
    /\ Invest.count = Len(invLog)
    /\ Risk.count = Len(riskLog)
    /\ Invest.count >= 0 /\ Risk.count >= 0
    /\ prevDebates.invest # <<>> => Invest.count = prevDebates.invest[1].count + 1
    /\ prevDebates.risk # <<>> => Risk.count = prevDebates.risk[1].count + 1

\* both sides of the investment debate have spoken, and one risk analyst
C6_Witness ==
    /\ Len(invLog) = 2 /\ invLog[1].side = "bear" /\ invLog[2].side = "bull"
    /\ Len(riskLog) = 1
    /\ Invest.count = 2 /\ Risk.count = 1

\* C7: append is not idempotent: two appends with the same (side, text) to a
\* fresh debate state leave count 2 and a history in which text occurs
\* twice, and the second append changes the state the first one left.
C7_AppendIsNotIdempotent ==
    /\ (Len(invLog) = 2 /\ invLog[1] = invLog[2])
       => /\ Invest.count = 2
          /\ Cardinality(Occurrences(Invest.history, invLog[1].text)) >= 2
          /\ Invest # prevDebates.invest[1]
    /\ (Len(riskLog) = 2 /\ riskLog[1] = riskLog[2])
       => /\ Risk.count = 2
          /\ Cardinality(Occurrences(Risk.history, riskLog[1].text)) >= 2
          /\ Risk # prevDebates.risk[1]

\* the bear said "a" twice, and so did the safe analyst
C7_Witness ==
    /\ invLog = <<[side |-> "bear", text |-> <<"a">>], [side |-> "bear", text |-> <<"a">>]>>
    /\ Invest.history = <<SEP, "a", SEP, "a">>
    /\ prevDebates.invest[1].history = <<SEP, "a">>

\* C8: in the risk debate each of current_risky_response,
\* current_safe_response, current_neutral_response is the text of the most
\* recent append made for that role ("" if none), and an append for one role
\* leaves the slots of the other two roles as they were.
C8_RiskSlotsFollowTheirRole ==
    /\ Risk.current_risky_response = LastText(riskLog, "risky")
    /\ Risk.current_safe_response = LastText(riskLog, "safe")
    /\ Risk.current_neutral_response = LastText(riskLog, "neutral")
    /\ prevDebates.risk # <<>>
       => \A side \in RiskSides \ {riskLog[Len(riskLog)].side} :
              Risk[RiskSlot(side)] = prevDebates.risk[1][RiskSlot(side)]

\* the risky analyst spoke twice around the neutral one; safe never spoke
C8_Witness ==
    /\ Len(riskLog) = 3
    /\ riskLog[1] = [side |-> "risky", text |-> <<"a">>]
    /\ riskLog[2] = [side |-> "neutral", text |-> <<"b">>]
    /\ riskLog[3] = [side |-> "risky", text |-> <<"c">>]
    /\ Risk.current_risky_response = <<"c">>
    /\ Risk.current_neutral_response = <<"b">>
    /\ Risk.current_safe_response = <<>>

C12_InvalidSideIsRejected ==
    (attempt # <<>> /\ exc.op = "append")
    => LET recognised ==
               IF attempt[1].debate = "invest"
               THEN attempt[1].side \in {"bull", "bear"}
               ELSE attempt[1].side \in {"risky", "safe", "neutral"}
       IN  /\ recognised => exc.raised = "NoException"
           /\ ~recognised => exc.raised = "InvalidSide"

\* a risk analyst's role was passed to the investment debate and refused
\* after a bull turn that was accepted
C12_Witness ==
    /\ attempt = <<[debate |-> "invest", side |-> "risky"]>>
    /\ exc = [op |-> "append", raised |-> "InvalidSide"]
    /\ Len(invLog) = 1 /\ invLog[1].side = "bull"
    /\ Invest.count = 1


IsPrefix(s, t) == Len(s) <= Len(t) /\ SubSeq(t, 1, Len(s)) = s

\* C13: debate history is append-only over a whole run: both histories start
\* empty with count 0, and in every step the old history is a prefix of the
\* new one (never truncated, reordered or reset) and count does not decrease.
C13_HistoryIsAppendOnly ==
    /\ Invest.history = <<>> /\ Invest.count = 0
    /\ Risk.history = <<>> /\ Risk.count = 0
    /\ [][/\ IsPrefix(Invest.history, Invest.history')
          /\ IsPrefix(Risk.history, Risk.history')
          /\ Invest.count' >= Invest.count
          /\ Risk.count' >= Risk.count]_vars

\* the investment history grew from "<sep>a" to "<sep>a<sep>b"
C13_Witness ==
    /\ Len(invLog) = 2
    /\ prevDebates.invest[1].history = <<SEP, "a">>
    /\ Invest.history = <<SEP, "a", SEP, "b">>
    /\ Len(riskLog) = 1

\* a debate state after the appends of log, from the state create_initial_state builds
RECURSIVE InvestAfter(_)
InvestAfter(log) ==
    IF log = <<>> THEN [history |-> <<>>, current_response |-> <<>>, count |-> 0]
    ELSE LET d == InvestAfter(SubSeq(log, 1, Len(log) - 1))
             e == log[Len(log)]
         IN  [history |-> d.history \o <<SEP>> \o e.text,
              current_response |-> e.text,
              count |-> d.count + 1]

RECURSIVE RiskAfter(_)
RiskAfter(log) ==
    IF log = <<>>
    THEN [history |-> <<>>, current_risky_response |-> <<>>,
          current_safe_response |-> <<>>, current_neutral_response |-> <<>>,
          count |-> 0]
    ELSE LET d == RiskAfter(SubSeq(log, 1, Len(log) - 1))
             e == log[Len(log)]
         IN  [history |-> d.history \o <<SEP>> \o e.text,
              current_risky_response |->
                  IF e.side = "risky" THEN e.text ELSE d.current_risky_response,
              current_safe_response |->
                  IF e.side = "safe" THEN e.text ELSE d.current_safe_response,
              current_neutral_response |->
                  IF e.side = "neutral" THEN e.text ELSE d.current_neutral_response,
              count |-> d.count + 1]

\* C15: appends to the investment debate and appends to the risk debate are
\* independent: however the two append sequences were interleaved, the
\* investment debate is what its own appends alone make of a fresh state,
\* and so is the risk debate; an append to one leaves the other as it was.
C15_DebatesAreIndependent ==
    /\ [](Invest = InvestAfter(invLog) /\ Risk = RiskAfter(riskLog))
    /\ [][/\ Invest' # Invest => Risk' = Risk
          /\ Risk' # Risk => Invest' = Invest]_vars

\* two risk turns and one investment turn, the investment turn last
C15_Witness ==
    /\ Len(riskLog) = 2 /\ Len(invLog) = 1
    /\ attempt = <<[debate |-> "invest", side |-> "bear"]>>
    /\ Risk.count = 2 /\ Invest.count = 1
    /\ Risk.history = <<SEP, "a", SEP, "b">>
    /\ Invest.history = <<SEP, "c">>

---------------------------------------------------------------------------
(* Properties of create_initial_state as a function, under SpecFresh        *)

\* C14: create_initial_state is pure: the controller and the caller's config
\* (its holding_info mapping included) stay as they were, two calls on equal
\* inputs return equal states, and each returned state is fresh: writing to
\* it later changes neither the caller's config nor a state another call
\* returned.
C14_CreateIsPure ==
    /\ max_recur_limit = Propagator_init(ctor_arg)
    /\ DerefConfig(heap, call[1].config) = call[2]
    /\ \A i \in 1..Len(returned) :
           i \notin touched => ViewOf(heap, returned[i].state) = returned[i].as_returned
    /\ (Len(returned) = 2 /\ touched = {})
       => ViewOf(heap, returned[1].state) = ViewOf(heap, returned[2].state)


---------------------------------------------------------------------------
(* Properties of scripts/container_init.py, under SpecContainer             *)

\* C18: init_mongodb returns True, main returns True and the script exits 0
\* only if every initialisation step completed without error; a failure in
\* any step makes init_mongodb return False.
C18_TrueOnlyIfEveryStepSucceeded ==
    /\ ret.init_mongodb = <<TRUE>> => failed = {}
    /\ ret.main = <<TRUE>> => failed = {}
    /\ ret.exit = <<0>> => failed = {}
    /\ (failed # {} /\ ret.init_mongodb # <<>>) => ret.init_mongodb = <<FALSE>>

Finished(w) == w.outcome # "running"

\* at most max_retries attempts; a client on the first attempt that connects;
\* a sleep after each failed attempt but the last; the failure re-raised
\* after max_retries failures in a row
WaitCounts(w) ==
    /\ w.attempts <= (IF w.max_retries > 0 THEN w.max_retries ELSE 0)
    /\ w.outcome = "running" => w.attempts = w.failures /\ w.sleeps = w.attempts
    /\ w.outcome = "client" => w.attempts = w.failures + 1 /\ w.sleeps = w.attempts - 1
    /\ w.outcome = "raised"
       => /\ w.attempts = w.max_retries
          /\ w.failures = w.max_retries
          /\ w.sleeps = w.max_retries - 1

\* init_mongodb has started only after both waits returned a client
InitAfterBothWaits ==
    (cpc = "init_mongodb" \/ ret.init_mongodb # <<>>)
    => /\ Len(waits) = 2
       /\ waits[1].service = "mongodb" /\ waits[1].outcome = "client"
       /\ waits[2].service = "redis" /\ waits[2].outcome = "client"

\* a wait that has ended makes no further attempt and does not sleep again
EndedWaitsStay ==
    \A k \in 1..Len(waits) :
        Finished(waits[k]) => (k <= Len(waits') /\ waits'[k] = waits[k])

\* C19 as stated: the waits always terminate, make at most max_retries
\* attempts, return the client on the first success, sleep only between
\* attempts, raise after max_retries failures and never return without a
\* client or an exception; main starts init_mongodb only after both waits
\* succeeded.
C19_WaitsEndWithClientOrException ==
    /\ [](\A k \in 1..Len(waits) :
            /\ WaitCounts(waits[k])
            /\ waits[k].outcome \in {"running", "client", "raised"})
    /\ []InitAfterBothWaits
    /\ [][EndedWaitsStay]_vars
    /\ <>(cpc = "done")

\* What the waits do guarantee (C19 for max_retries >= 1): with
\* max_retries <= 0 the loop body never runs and the wait returns None,
\* without an attempt, a sleep, a client or an exception.
WaitsEndWithClientOrExceptionIfPositive ==
    /\ [](\A k \in 1..Len(waits) :
            /\ WaitCounts(waits[k])
            /\ waits[k].max_retries >= 1
               => waits[k].outcome \in {"running", "client", "raised"}
            /\ waits[k].max_retries <= 0
               => /\ waits[k].outcome \in {"running", "none"}
                  /\ waits[k].attempts = 0
                  /\ waits[k].sleeps = 0)
    /\ []InitAfterBothWaits
    /\ [][EndedWaitsStay]_vars
    /\ <>(cpc = "done" /\ \A k \in 1..Len(waits) : Finished(waits[k]))

\* a wait called with max_retries = 2 has failed twice, slept once between
\* the attempts and re-raised
RaisedAfterTwoFailures ==
    /\ cpc = "done"
    /\ entry[1].fn = "wait_for_redis"
    /\ waits[1].max_retries = 2
    /\ waits[1].outcome = "raised"
    /\ waits[1].attempts = 2
    /\ waits[1].sleeps = 1

=============================================================================
